---- MODULE Spec2Model ----
(***************************************************************************)
(* Profile-messaging orchestration of Femzy1900/Messenger-Facebook.        *)
(*                                                                         *)
(* The repository holds two builds of the same flow:                       *)
(*   "actor"    src/Messenger/src/messenger.js     (Actor.main)            *)
(*   "enhanced" src/Messenger/src/messengerrrr.js  (runMessenger, driven   *)
(*              by main.js = src/unnamed/part_000)                         *)
(* The model runs either build (variant) as one sequential program: pc is  *)
(* the position of the single thread of control, every action is one       *)
(* awaited step of the code, and whatever the page, the key-value store or *)
(* the sink answers is drawn afresh at the step that asks (\E), because    *)
(* the target page is not under the program's control.                     *)
(***************************************************************************)
EXTENDS Naturals, Sequences, FiniteSets, TLC

VARIABLES
    variant,               \* which build runs
    input,                 \* Actor.getInput()
    profiles,              \* resolved profile list
    headless,              \* resolved headless flag ("unset" before validation)
    message,               \* resolved message ("unset" before validation)
    pc,                    \* position of the thread of control
    i,                     \* loop index of the profile loop (1-based)
    browser,               \* "none" | "open" | "closed"
    closes,                \* number of browser.close() calls
    results,               \* the results array
    sink,                  \* records pushed to the dataset / appended to the log
    dataset,               \* main.js: Actor.pushData(results) (enhanced build)
    result,                \* value returned by sendMessageToProfile
    thrown,                \* message of the error in flight in the profile loop
    attempt,               \* navigation attempt counter
    messageButtonPresent,  \* "Yes" | "No"
    messageSent,           \* "Yes" | "No"
    elapsed,               \* ms since the manual-solve window started
    store,                 \* session artifacts: artifact key -> cookie set
    jar,                   \* cookies held in the browser context
    logins,                \* performFacebookLogin: calls and successful returns
    summary,               \* the summary written to OUTPUT
    paces,                 \* inter-profile pauses taken so far
    obs,                   \* what the current profile's steps observed
    cap,                   \* what the current challenge check saw and did
    ops                    \* what the current profile's steps did

vars == << variant, input, profiles, headless, message, pc, i, browser, closes, results,
           sink, dataset, result, thrown, attempt,
           messageButtonPresent, messageSent, elapsed, store, jar, logins, summary, paces, obs, cap,
           ops >>

(***************************************************************************)
(* Bounds of the model.                                                    *)
(***************************************************************************)
MaxProfiles == 2
MaxTextLen == 2
MaxErrorElements == 2
MaxIdLen == 2

(***************************************************************************)
(* Program constants.                                                      *)
(***************************************************************************)
maxAttempts == 3
ManualMaxWaitMs == 180000
ManualPollMs == 2000

NoError == "<none>"
Undefined == "<undefined>"

ProfileUnavailableMsg == "Profile unavailable or no messaging option found"
InputNotFoundMsg == "Message input field not found"
CaptchaUnsolvedMsg == "CAPTCHA could not be solved during login"
StillOnLoginMsg == "Login failed: Still on login page"
LoginFailedPrefix == "Login failed: "
NotAFunctionMsg == "elementHandle.click is not a function"
EmailFieldMissingMsg == "Email field not found"
PasswordFieldMissingMsg == "Password field not found"
PageNotLoadedMsg == "Page did not load properly"
DriverTimeoutMsg == "Navigation timeout of 45000 ms exceeded"
WaitTimeoutMsg == "Waiting for selector failed: timeout 10000ms exceeded"
DriverErrorMsg == "Protocol error: Target closed"
StoreErrorMsg == "Key-value store error"
SinkErrorMsg == "Dataset push failed"

ProfilePool ==
    << [id |-> "profile-001", url |-> "u1"],
       [id |-> "profile-002", url |-> "u2"],
       [id |-> "profile-003", url |-> "u3"],
       [id |-> "profile-004", url |-> "u4"] >>

\* Actor.main: the list used when the input carries no profiles.
DefaultProfiles == SubSeq(ProfilePool, 1, 2)

Variants == {"actor", "enhanced"}

(***************************************************************************)
(* Inputs: a well-formed input, or one with a single field missing or of   *)
(* the wrong shape.                                                        *)
(***************************************************************************)
GoodInput(h) ==
    [loginEmail |-> "given", loginPassword |-> "given", profiles |-> "ok",
     message |-> "ok", headless |-> h]

Inputs ==
    {GoodInput(h) : h \in {"absent", "true", "false"}}
    \cup {[GoodInput("true") EXCEPT !.loginEmail = "absent"],
          [GoodInput("true") EXCEPT !.loginPassword = "absent"]}
    \cup {[GoodInput("true") EXCEPT !.profiles = p] : p \in {"absent", "empty", "notarray"}}
    \cup {[GoodInput("true") EXCEPT !.message = m] : m \in {"absent", "nonstring"}}

(***************************************************************************)
(* The session store and the cookies of the browser context.  An identity  *)
(* is a sequence of characters, a cookie set is a set of cookie names.     *)
(***************************************************************************)
IdChars == {"a", "+", "!"}

\* The characters email.replace(/[^a-z0-9_\-\.@]/gi, "_") leaves alone.
SafeChars == {"a"}

Identities == UNION {[1..n -> IdChars] : n \in 1..MaxIdLen}

SessionCookie == "sid"

CookieNames == {SessionCookie, "pref"}

CookieSets == SUBSET CookieNames

\* The identity of the run, as handed to loadCookies and saveCookies.
loginEmail == << "a", "+" >>

\* `cookies-${email.replace(/[^a-z0-9_\-\.@]/gi, "_")}`
cookieKey(email) ==
    << "cookies-" >> \o [j \in 1..Len(email) |->
                           IF email[j] \in SafeChars THEN email[j] ELSE "_"]

EmptyStore == [k \in {} |-> {}]

\* A faulty save that adds the cookies to the artifact already stored.
SaveInto_Merges(st, email, cookies) ==
    [k \in DOMAIN st \cup {cookieKey(email)} |->
        IF k = cookieKey(email)
          THEN (IF k \in DOMAIN st THEN st[k] ELSE {}) \cup cookies
          ELSE st[k]]

\* saveCookies: Actor.setValue(cookieKey, cookies) / fs.writeJson(path, cookies)
SaveInto(st, email, cookies) ==
    [k \in DOMAIN st \cup {cookieKey(email)} |->
        IF k = cookieKey(email) THEN cookies ELSE st[k]]

\* A faulty loadCookies without the try around page.setCookie: a rejected
\* install leaves the function as an error.
loadCookies_InstallRaises(st, email) ==
    IF cookieKey(email) \notin DOMAIN st
      THEN {[returned |-> FALSE, installed |-> {}, raised |-> FALSE, case |-> "absent"]}
      ELSE {[returned |-> TRUE, installed |-> st[cookieKey(email)], raised |-> FALSE,
             case |-> "installed"],
            [returned |-> FALSE, installed |-> {}, raised |-> TRUE, case |-> "rejected"],
            [returned |-> FALSE, installed |-> {}, raised |-> TRUE, case |-> "unreadable"]}

\* loadCookies: the outcomes of one call.  No artifact: false.  An artifact
\* that page.setCookie accepts: true; one it rejects: false (the error is
\* caught); one that cannot be read: the read raises.
loadCookies(st, email) ==
    IF cookieKey(email) \notin DOMAIN st
      THEN {[returned |-> FALSE, installed |-> {}, raised |-> FALSE, case |-> "absent"]}
      ELSE {[returned |-> TRUE, installed |-> st[cookieKey(email)], raised |-> FALSE,
             case |-> "installed"],
            [returned |-> FALSE, installed |-> {}, raised |-> FALSE, case |-> "rejected"],
            [returned |-> FALSE, installed |-> {}, raised |-> TRUE, case |-> "unreadable"]}

\* The artifacts a run may find: none, or the one an earlier run saved.
InitialStores == {EmptyStore, SaveInto(EmptyStore, loginEmail, {SessionCookie})}

FreshObs ==
    [loaded |-> "none", loadReturned |-> "none", session |-> "none",
     nav |-> "pending", needsLogin |-> "unknown", login |-> "none",
     still |-> "unknown",
     errorElements |-> << >>,
     chat |-> "unknown", chatClick |-> "none",
     composer |-> "unknown", typing |-> "none",
     send |-> "unknown", sendClick |-> "none",
     navError |-> NoError,
     identity |-> "none", secret |-> "none"]

FreshOps ==
    [loads |-> 0, loginCalls |-> 0, identityTyped |-> 0, secretTyped |-> 0,
     submits |-> 0, saves |-> 0, returnLoads |-> 0, backoffs |-> 0,
     chatLookups |-> 0, chatClicks |-> 0, composerLookups |-> 0,
     typed |-> 0, sendClicks |-> 0, enterKeys |-> 0, pause |-> 0]

FreshCap ==
    [challenge |-> "none", chain |-> "none", audioCalls |-> 0,
     answersTyped |-> 0, polls |-> 0,
     frame |-> "unknown", audio |-> "none", audioSolved |-> "none",
     answerSource |-> "none", left |-> "none"]

\* The input object once the run's constants have been read from it: it is
\* not read again.  Validate keeps the headless option in it as it was given.
ReadInput ==
    [loginEmail |-> "read", loginPassword |-> "read", profiles |-> "read",
     message |-> "read", headless |-> "read"]

\* What holds before anything has run.
Unstarted ==
    /\ variant \in Variants
    /\ profiles = << >>
    /\ headless = "unset"
    /\ message = "unset"
    /\ i = 1
    /\ browser = "none"
    /\ closes = 0
    /\ results = << >>
    /\ sink = << >>
    /\ dataset = << >>
    /\ result = Undefined
    /\ thrown = NoError
    /\ attempt = 0
    /\ messageButtonPresent = "No"
    /\ messageSent = "No"
    /\ elapsed = 0
    /\ logins = [calls |-> 0, ok |-> 0]
    /\ summary = Undefined
    /\ paces = 0
    /\ obs = FreshObs
    /\ cap = FreshCap
    /\ ops = FreshOps

Init ==
    /\ Unstarted
    /\ input \in Inputs
    /\ pc = "validate"
    /\ store \in InitialStores
    /\ jar = {}


cfgVars == << variant, input, profiles, headless, message >>
loopVars == << i, browser, closes, results, sink, dataset, thrown, paces >>

(***************************************************************************)
(* Input validation.                                                       *)
(*   actor:    Actor.main resolves every field against a literal or a      *)
(*             default before it checks it (x || default).                 *)
(*   enhanced: main.js and runMessenger check the raw input.               *)
(***************************************************************************)
\* messenger.js 560-563: "literal" || env || input: the literal always wins.
ResolvedEmail(v, inp) == IF v = "actor" THEN "literal" ELSE inp.loginEmail
ResolvedPassword(v, inp) == IF v = "actor" THEN "literal" ELSE inp.loginPassword

\* messenger.js 564-570: input.profiles || [two defaults].
ResolvedProfilesShape(v, inp) ==
    IF v = "actor" /\ inp.profiles = "absent" THEN "ok" ELSE inp.profiles

\* messenger.js 571: input.message || "Hello World".
ResolvedMessage(v, inp) ==
    IF v = "actor" /\ inp.message = "absent" THEN "ok" ELSE inp.message

\* messenger.js 572: input.headless || false; messengerrrr.js 900, 716.
ResolvedHeadless(inp) == IF inp.headless = "true" THEN "true" ELSE "false"

ValidationError(v, inp) ==
    IF ResolvedEmail(v, inp) = "absent" \/ ResolvedPassword(v, inp) = "absent"
      THEN "loginEmail and loginPassword are required"
    ELSE IF ResolvedProfilesShape(v, inp) # "ok"
      THEN "profiles array is required"
    ELSE IF ResolvedMessage(v, inp) = "absent"
            \/ (v = "actor" /\ ResolvedMessage(v, inp) = "nonstring")
      THEN "message is required"
    ELSE NoError

Validate ==
    /\ pc = "validate"
    /\ IF ValidationError(variant, input) # NoError
         THEN /\ pc' = "invalid"
              /\ thrown' = ValidationError(variant, input)
              /\ UNCHANGED << input, profiles, headless, message >>
         ELSE /\ pc' = "launch"
              /\ headless' = ResolvedHeadless(input)
              /\ message' = ResolvedMessage(variant, input)
              /\ input' = [ReadInput EXCEPT !.headless = input.headless]
              /\ \/ /\ input.profiles = "ok"
                    /\ \E n \in 1..MaxProfiles : profiles' = SubSeq(ProfilePool, 1, n)
                 \/ /\ input.profiles = "absent"
                    /\ profiles' = DefaultProfiles
              /\ UNCHANGED thrown
    /\ UNCHANGED << variant, i, browser, closes, results, sink, dataset,
                    result, attempt, messageButtonPresent, messageSent,
                    elapsed, store, jar, logins, summary, paces, obs, cap, ops >>

(***************************************************************************)
(* Browser set-up: puppeteer.launch, then newPage and the page's headers,  *)
(* all before the try block whose finally closes the browser.              *)
(***************************************************************************)
Launch ==
    /\ pc = "launch"
    /\ \/ /\ browser' = "open"
          /\ pc' = "configure"
          /\ UNCHANGED thrown
       \/ /\ pc' = "crashed"
          /\ thrown' = "Failed to launch the browser process"
          /\ UNCHANGED browser
    /\ UNCHANGED << cfgVars, i, closes, results, sink, dataset, result, attempt,
                    messageButtonPresent, messageSent, elapsed, store, jar, logins, summary,
                    paces, obs, ops, cap >>

Configure ==
    /\ pc = "configure"
    /\ \/ /\ pc' = "home"
          /\ UNCHANGED thrown
       \/ /\ pc' = "crashed"
          /\ thrown' = DriverErrorMsg
    /\ UNCHANGED << cfgVars, i, browser, closes, results, sink, dataset, result,
                    attempt, messageButtonPresent, messageSent, elapsed,
                    store, jar, logins, summary, paces, obs, ops, cap >>

\* The home-page visit: every failure in it is swallowed.
Home ==
    /\ pc = "home"
    /\ pc' = "loop"
    /\ \/ \E o \in loadCookies(store, loginEmail) : jar' = jar \cup o.installed
       \/ jar' = jar
    /\ UNCHANGED << cfgVars, loopVars, result, attempt,
                    messageButtonPresent, messageSent, elapsed, store, logins,
                    summary, obs, ops, cap >>

(***************************************************************************)
(* The profile loop.                                                       *)
(***************************************************************************)
LoopHead ==
    /\ pc = "loop"
    /\ IF i <= Len(profiles)
         THEN pc' = IF i > 1 THEN "pace" ELSE "smtp_load"
         ELSE pc' = "close"
    /\ UNCHANGED << cfgVars, loopVars, result, attempt,
                    messageButtonPresent, messageSent, elapsed, store, jar, logins, summary, obs, ops, cap >>

\* The bounds of the pause between profiles and of the pause after a failed
\* page load, in milliseconds.
PaceMinMs == 3000
PaceMaxMs == 10000
BackoffMinMs == 2000
BackoffMaxMs == 4000

\* A faulty draw whose upper bound is exclusive of nothing: it can exceed max.
rand_PastMax(min, max) == {min, max + 1}

\* Math.floor(Math.random() * (max - min + 1)) + min: an integer of
\* min..max.  The draws followed are the two extremes; every value between
\* them is handled as they are.
rand(min, max) == {min, max}

\* if (i > 0) delay(rand(3000, 10000)) at the top of the loop body.  ops.pause
\* is the length of the delay in progress.
Pace ==
    /\ pc = "pace"
    /\ paces' = paces + 1
    /\ \E pauseTime \in rand(PaceMinMs, PaceMaxMs) :
         ops' = [ops EXCEPT !.pause = pauseTime]
    /\ pc' = "smtp_load"
    /\ UNCHANGED << cfgVars, i, browser, closes, results, sink, dataset, thrown,
                    result, attempt, messageButtonPresent, messageSent,
                    elapsed, store, jar, logins, summary, obs, cap >>

\* What the sink receives for a returned result: the result plus a timestamp.
Stamped(r) == [r EXCEPT !.timestamp = "set"]

\* The record built by the loop's own catch block.
\* messenger.js 726-734 sets both flags to "No"; messengerrrr.js 846-852 leaves
\* them out.
LoopFailRecord(v, profile, msg) ==
    [profileId |-> profile.id, url |-> profile.url, success |-> FALSE,
     error |-> msg, timestamp |-> "set",
     messageButtonPresent |-> IF v = "actor" THEN "No" ELSE Undefined,
     messageSent |-> IF v = "actor" THEN "No" ELSE Undefined]

\* The end of the try block of the loop body: the values scoped to it and to
\* the call of sendMessageToProfile in it go out of scope.
EndOfBody ==
    /\ result' = Undefined
    /\ attempt' = 0
    /\ messageButtonPresent' = "No"
    /\ messageSent' = "No"
    /\ obs' = FreshObs
    /\ ops' = FreshOps
    /\ cap' = FreshCap

\* A faulty emission that drops the records of failed profiles.
Emitted_DropsFailures(snk, rec) == IF rec.success THEN Append(snk, rec) ELSE snk

\* A faulty emission that is put off: nothing reaches the sink when the
\* loop moves on.
Emitted_Deferred(snk, rec) == snk

\* Actor.pushData(record) / logResult(record): the record is appended.
Emitted(snk, rec) == Append(snk, rec)

\* Actor.pushData / logResult of the returned result, then results.push.
Push ==
    /\ pc = "push"
    /\ \/ /\ sink' = Emitted(sink, Stamped(result))
          /\ results' = Append(results, result)
          /\ i' = i + 1
          /\ pc' = "loop"
          /\ UNCHANGED thrown
       \/ /\ thrown' = SinkErrorMsg
          /\ pc' = "loop_catch"
          /\ UNCHANGED << sink, results, i >>
    /\ EndOfBody
    /\ UNCHANGED << cfgVars, browser, closes, dataset, paces, elapsed, store, jar, logins, summary >>

\* A faulty batch without the finally block: an error that escapes the loop
\* leaves the batch at once.
OnEscape_NoFinally == "fatal"

\* Where an error that escapes the profile loop goes: catch (err) { throw err }
\* and then the finally block, which closes the browser.
OnEscape == "fatal_close"

\* The catch block of the loop body.
LoopCatch ==
    /\ pc = "loop_catch"
    /\ \/ /\ sink' = Emitted(sink, LoopFailRecord(variant, profiles[i], thrown))
          /\ results' = Append(results, LoopFailRecord(variant, profiles[i], thrown))
          /\ i' = i + 1
          /\ thrown' = NoError
          /\ pc' = "loop"
       \/ /\ thrown' = SinkErrorMsg
          /\ pc' = OnEscape
          /\ UNCHANGED << sink, results, i >>
    /\ EndOfBody
    /\ UNCHANGED << cfgVars, browser, closes, dataset, paces, elapsed, store, jar, logins, summary >>

\* finally { browser.close() }, on the normal path and on the fatal one.
CloseBrowser ==
    /\ pc \in {"close", "fatal_close"}
    /\ browser' = "closed"
    /\ closes' = closes + 1
    /\ pc' = IF pc = "close" THEN "summary" ELSE "fatal"
    /\ UNCHANGED << cfgVars, i, results, sink, dataset, thrown, paces, result,
                    attempt, messageButtonPresent, messageSent, elapsed,
                    store, jar, logins, summary, obs, ops, cap >>

\* actor: the summary and Actor.setValue("OUTPUT"); enhanced: processAll
\* returns results and main.js pushes them to the dataset.
\* results.filter((r) => r.success).length
successful(rs) == Cardinality({k \in 1..Len(rs) : rs[k].success})

\* A faulty count that takes the profiles without a message button for the
\* failed ones.
failed_NoButton(rs) ==
    Cardinality({k \in 1..Len(rs) : rs[k].messageButtonPresent # "Yes"})

\* results.filter((r) => !r.success).length
failed(rs) == Cardinality({k \in 1..Len(rs) : ~rs[k].success})

\* Actor.setValue("OUTPUT", { summary: { totalProfiles, successful, failed,
\* ... }, results }) in messenger.js; processAll returns results, which
\* main.js pushes.
Summary ==
    /\ pc = "summary"
    /\ dataset' = IF variant = "enhanced" THEN results ELSE dataset
    /\ summary' = IF variant = "actor"
                    THEN [totalProfiles |-> Len(profiles),
                          successful |-> successful(results),
                          failed |-> failed(results)]
                    ELSE summary
    /\ pc' = "done"
    /\ UNCHANGED << cfgVars, i, browser, closes, results, sink, thrown, paces,
                    result, attempt, messageButtonPresent, messageSent,
                    elapsed, store, jar, logins, obs, ops, cap >>


(***************************************************************************)
(* sendMessageToProfile.  Every error raised inside its try block ends in  *)
(* its catch block, which returns a failed result carrying the two flags   *)
(* as they stand.                                                          *)
(***************************************************************************)
profile == profiles[i]

\* A faulty success record that reports the initial delivery flag.
SuccessResult_SentUnset(p, mbp, ms) ==
    [profileId |-> p.id, url |-> p.url, success |-> TRUE, error |-> NoError,
     timestamp |-> Undefined, messageButtonPresent |-> mbp, messageSent |-> "No"]

SuccessResult(p, mbp, ms) ==
    [profileId |-> p.id, url |-> p.url, success |-> TRUE, error |-> NoError,
     timestamp |-> Undefined, messageButtonPresent |-> mbp, messageSent |-> ms]

FailResult(p, msg, mbp, ms) ==
    [profileId |-> p.id, url |-> p.url, success |-> FALSE, error |-> msg,
     timestamp |-> Undefined, messageButtonPresent |-> mbp, messageSent |-> ms]

\* A faulty handler that lets the error leave sendMessageToProfile.
SmtpCatch_Rethrows(msg) ==
    /\ result' = FailResult(profile, msg, messageButtonPresent, messageSent)
    /\ pc' = "loop_catch"

\* catch (err) { return { success: false, ..., error: err.message, ... } }
SmtpCatch(msg) ==
    /\ result' = FailResult(profile, msg, messageButtonPresent, messageSent)
    /\ pc' = "push"

\* A faulty handler in performFacebookLogin that logs the error and returns,
\* so that the caller goes on to saveCookies.
LoginCatch_Swallows(msg) ==
    /\ result' = result
    /\ pc' = "smtp_save"

\* performFacebookLogin: catch (error) { console.error(...); throw error; }
\* The error reaches the handler of sendMessageToProfile unchanged.
LoginCatch(msg) == SmtpCatch(msg)

\* The message an error raised in the messaging block leaves it with:
\* messenger.js 521-523 replaces every such error; messengerrrr.js has no
\* inner handler.
InnerError(v, msg) == IF v = "actor" THEN ProfileUnavailableMsg ELSE msg

Did(f) == [ops EXCEPT ![f] = @ + 1]

\* Entry: the locals are initialised, then loadCookies(page, email).  The
\* artifact may be missing, installed, or rejected by page.setCookie; none of
\* these raises.
SmtpLoad ==
    /\ pc = "smtp_load"
    /\ messageButtonPresent' = "No"
    /\ messageSent' = "No"
    /\ attempt' = 0
    /\ elapsed' = 0
    /\ cap' = FreshCap
    /\ ops' = FreshOps
    /\ \E o \in loadCookies(store, loginEmail) :
         /\ obs' = [FreshObs EXCEPT !.loaded = o.case,
                                     !.loadReturned = IF o.raised THEN "raised"
                                                      ELSE IF o.returned THEN "true"
                                                      ELSE "false"]
         /\ jar' = jar \cup o.installed
         /\ IF o.raised
              THEN /\ result' = FailResult(profile, StoreErrorMsg, "No", "No")
                   /\ pc' = "push"
              ELSE /\ result' = Undefined
                   /\ pc' = "smtp_nav"
    /\ UNCHANGED << cfgVars, loopVars, store, logins, summary >>

NavExhaustedPrefix == "Failed to load profile after 3 attempts: "

\* A faulty report that leaves the cause out.
NavExhaustedError_NoCause(m) == "Failed to load profile after 3 attempts"

\* new Error(`Failed to load profile after ${maxAttempts} attempts:
\* ${navError.message}`), with navError the error of the attempt just caught.
NavExhaustedError(m) == NavExhaustedPrefix \o m

\* One pass of the navigation loop: page.goto, the settle delay, the
\* liveness check.
SmtpNav ==
    /\ pc = "smtp_nav"
    /\ attempt < maxAttempts
    /\ attempt' = attempt + 1
    /\ ops' = [ops EXCEPT !.loads = @ + 1, !.pause = 0]
    /\ \/ /\ obs' = [obs EXCEPT !.nav = "ok"]
          /\ pc' = "smtp_detect"
          /\ UNCHANGED result
       \/ \E m \in {DriverTimeoutMsg, PageNotLoadedMsg} :
            IF attempt + 1 = maxAttempts
              THEN /\ obs' = [obs EXCEPT !.nav = "exhausted", !.navError = m]
                   /\ SmtpCatch(NavExhaustedError(m))
              ELSE /\ obs' = [obs EXCEPT !.navError = m]
                   /\ pc' = "smtp_backoff"
                   /\ UNCHANGED result
    /\ UNCHANGED << cfgVars, loopVars, messageButtonPresent, messageSent,
                    elapsed, store, jar, logins, summary, cap >>

\* await delay(rand(2000, 4000)) at the end of the catch block of a failed
\* attempt that was not the last; navError goes out of scope with the block.
SmtpBackoff ==
    /\ pc = "smtp_backoff"
    /\ \E d \in rand(BackoffMinMs, BackoffMaxMs) :
         ops' = [ops EXCEPT !.backoffs = @ + 1, !.pause = d]
    /\ obs' = [obs EXCEPT !.navError = NoError]
    /\ pc' = "smtp_nav"
    /\ UNCHANGED << cfgVars, loopVars, result, attempt, messageButtonPresent,
                    messageSent, elapsed, store, jar, logins, summary, cap >>

(***************************************************************************)
(* isLoginRequired: the URL test, then the structural test.                *)
(***************************************************************************)
PageFacts ==
    [urlLogin : BOOLEAN, hasLoginForm : BOOLEAN, hasPasswordField : BOOLEAN,
     hasLoginButton : BOOLEAN, hasLoginText : BOOLEAN]

\* A faulty detector for which the two fields are enough.
isLoginRequired_FieldsSuffice(pg) ==
    pg.urlLogin \/ (pg.hasLoginForm /\ pg.hasPasswordField)

\* A faulty detector that takes any login wording on the page for a login
\* page.
isLoginRequired_AnyLoginWording(pg) ==
    pg.urlLogin \/ pg.hasLoginButton \/ pg.hasLoginText

isLoginRequired(pg) ==
    \/ pg.urlLogin
    \/ (pg.hasLoginForm /\ pg.hasPasswordField
          /\ (pg.hasLoginButton \/ pg.hasLoginText))

\* A faulty branch that logs in on every profile.
LoginBranchTaken_Always(needsLogin) == TRUE

\* A faulty layout with saveCookies and the return navigation after the if
\* block instead of inside it.
AfterNoLogin_Saves == "smtp_save"

\* Where sendMessageToProfile goes on when needsLogin is false: past the if
\* block, to the scroll.
AfterNoLogin == "smtp_scroll"

\* What the target makes of the cookies of the context: without a session
\* cookie there is no session; with one, the target honours it or not.
SessionTreatments(j) ==
    IF SessionCookie \in j THEN {"honoured", "ignored"} ELSE {"none"}

\* The pages the target may serve for the profile URL: under a session it
\* honours, not the login page and no page with a login form.
PagesServed(sess) ==
    IF sess = "honoured"
      THEN {pg \in PageFacts : ~pg.urlLogin /\ ~pg.hasLoginForm}
      ELSE PageFacts

\* if (needsLogin) { await performFacebookLogin(...); ... }
LoginBranchTaken(needsLogin) == needsLogin

\* const needsLogin = await isLoginRequired(page); if (needsLogin) { ... }
SmtpDetect ==
    /\ pc = "smtp_detect"
    /\ \E sess \in SessionTreatments(jar) :
       \E needsLogin \in {isLoginRequired(pg) : pg \in PagesServed(sess)} :
         /\ IF LoginBranchTaken(needsLogin)
              THEN /\ ops' = Did("loginCalls")
                   /\ logins' = [logins EXCEPT !.calls = @ + 1]
                   /\ pc' = "login_wait"
              ELSE /\ pc' = AfterNoLogin
                   /\ UNCHANGED << ops, logins >>
         /\ obs' = [obs EXCEPT !.needsLogin = IF needsLogin THEN "yes" ELSE "no",
                                !.session = sess]
    /\ UNCHANGED << cfgVars, loopVars, result, attempt, messageButtonPresent,
                    messageSent, elapsed, store, jar, summary, cap >>

(***************************************************************************)
(* performFacebookLogin.  Its catch block logs and rethrows, so every      *)
(* error ends in sendMessageToProfile's catch block.                       *)
(***************************************************************************)
profVars == << result, attempt, messageButtonPresent, messageSent, elapsed >>

\* await page.waitForSelector('input[name="email"], input[type="email"]')
LoginWait ==
    /\ pc = "login_wait"
    /\ \/ /\ pc' = "login_email"
          /\ UNCHANGED result
       \/ LoginCatch(WaitTimeoutMsg)
    /\ obs' = [obs EXCEPT !.login = "started"]
    /\ UNCHANGED << cfgVars, loopVars, attempt, messageButtonPresent,
                    messageSent, elapsed, store, jar, logins, summary, ops, cap >>

\* What process.env.LOGIN_PASSWORD holds when the process starts.
Ambient == {"absent", "set"}

\* Where the identity handed to performFacebookLogin comes from.
\* messenger.js 403 passes email, which Actor.main resolved at 560 as
\* "literal" || env || input; messengerrrr.js 539 passes
\* process.env.LOGIN_EMAIL, which runMessenger assigned from input.loginEmail.
LoginIdentity(v) == IF v = "actor" THEN "literal" ELSE "input"

\* A faulty call that takes the secret from the environment the process was
\* started in.
LoginSecret_FromAmbient(v, ambient) ==
    IF ambient = "absent" THEN "empty" ELSE "ambient"

\* Where the secret handed to performFacebookLogin comes from.
\* messenger.js 404 passes process.env.LOGIN_PASSWORD || ""; messengerrrr.js
\* 540 passes process.env.LOGIN_PASSWORD, which runMessenger assigned from
\* input.loginPassword at 898.
LoginSecret(v, ambient) ==
    IF v = "actor"
      THEN IF ambient = "absent" THEN "empty" ELSE "ambient"
      ELSE "input"

\* The identity field: humanClick, then humanType(emailField, email).
LoginEmail ==
    /\ pc = "login_email"
    /\ \/ /\ ops' = Did("identityTyped")
          /\ obs' = [obs EXCEPT !.identity = LoginIdentity(variant)]
          /\ pc' = "login_pass"
          /\ UNCHANGED result
       \/ /\ LoginCatch(EmailFieldMissingMsg)
          /\ UNCHANGED << ops, obs >>
       \/ /\ LoginCatch(DriverErrorMsg)
          /\ UNCHANGED << ops, obs >>
    /\ UNCHANGED << cfgVars, loopVars, attempt, messageButtonPresent,
                    messageSent, elapsed, store, jar, logins, summary, cap >>

\* What humanType is handed for the secret: messenger.js 262 passes the
\* selector string, messengerrrr.js 372 the element handle.
SecretTypeTarget(v) == IF v = "actor" THEN "selector" ELSE "handle"

\* The secret field: humanClick, then humanType.  humanType starts with
\* elementHandle.click(...), which a string does not have.
LoginPass ==
    /\ pc = "login_pass"
    /\ \/ /\ SecretTypeTarget(variant) = "handle"
          /\ ops' = Did("secretTyped")
          /\ \E ambient \in Ambient :
               obs' = [obs EXCEPT !.secret = LoginSecret(variant, ambient)]
          /\ pc' = "login_submit"
          /\ UNCHANGED result
       \/ /\ SecretTypeTarget(variant) = "selector"
          /\ LoginCatch(NotAFunctionMsg)
          /\ UNCHANGED << ops, obs >>
       \/ /\ LoginCatch(PasswordFieldMissingMsg)
          /\ UNCHANGED << ops, obs >>
       \/ /\ LoginCatch(DriverErrorMsg)
          /\ UNCHANGED << ops, obs >>
    /\ UNCHANGED << cfgVars, loopVars, attempt, messageButtonPresent,
                    messageSent, elapsed, store, jar, logins, summary, cap >>

\* The outcomes of humanClick on a located element: the element has a
\* bounding box and is clicked, has none (nothing is done), or the driver
\* raises.
ClickOutcomes == {"clicked", "nobox", "raised"}

\* humanClick(page, element): with a bounding box the pointer is moved and
\* element.click is issued; without one the body is skipped and the function
\* returns undefined as it does after a click.  "raised" is a rejection of
\* boundingBox(), of a mouse move or of the click, which propagates.
humanClick(c) ==
    [ moved    |-> c = "clicked",
      clicked  |-> c = "clicked",
      raised   |-> c = "raised",
      returned |-> IF c = "raised" THEN "nothing" ELSE Undefined ]

\* The submit affordance, or Enter when none is found.
LoginSubmit ==
    /\ pc = "login_submit"
    /\ \/ \E c \in ClickOutcomes :
            CASE c = "clicked" -> /\ ops' = Did("submits")
                                  /\ pc' = "login_race"
                                  /\ UNCHANGED result
              [] c = "nobox"   -> /\ pc' = "login_race"
                                  /\ UNCHANGED << ops, result >>
              [] c = "raised"  -> /\ LoginCatch(DriverErrorMsg)
                                  /\ UNCHANGED ops
       \/ /\ ops' = Did("submits")
          /\ pc' = "login_race"
          /\ UNCHANGED result
    /\ UNCHANGED << cfgVars, loopVars, attempt, messageButtonPresent,
                    messageSent, elapsed, store, jar, logins, summary, obs, cap >>

\* Promise.race([page.waitForNavigation(15000), delay(5000)]), then the
\* settle delay.  The navigation wait may reject before the grace delay ends.
LoginRace ==
    /\ pc = "login_race"
    /\ \/ /\ pc' = "login_captcha"
          /\ obs' = [obs EXCEPT !.login = "submitted"]
          /\ UNCHANGED result
       \/ /\ LoginCatch(DriverErrorMsg)
          /\ UNCHANGED obs
    /\ UNCHANGED << cfgVars, loopVars, attempt, messageButtonPresent,
                    messageSent, elapsed, store, jar, logins, summary, ops, cap >>


(***************************************************************************)
(* The post-submit challenge check and solveCaptcha.                       *)
(***************************************************************************)
ChallengeFacts == [frame : BOOLEAN, text : BOOLEAN, element : BOOLEAN]

\* performFacebookLogin's check: a recaptcha iframe, or "security check" /
\* "verify" in the page text, or an element with captcha in its id or class.
captchaPresent(c) == c.frame \/ c.text \/ c.element

\* solveCaptcha's own detection: a recaptcha iframe, or a captcha overlay.
\* The page text is not looked at.
scCaptchaPresent(c) == c.frame \/ c.element

LoginCaptcha ==
    /\ pc = "login_captcha"
    /\ \E c \in ChallengeFacts :
         IF captchaPresent(c)
           THEN /\ cap' = [cap EXCEPT !.challenge =
                              IF c.frame \/ c.element THEN "marked" ELSE "textOnly"]
                /\ pc' = "sc_detect"
           ELSE /\ pc' = "login_verify"
                /\ UNCHANGED cap
    /\ UNCHANGED << cfgVars, loopVars, profVars, store, jar, logins, summary, obs, ops >>

\* solveCaptcha: if (!captchaPresent) return true;
ScDetect ==
    /\ pc = "sc_detect"
    /\ \E c \in ChallengeFacts :
         IF scCaptchaPresent(c)
           THEN /\ pc' = "sra_wait"
                /\ cap' = [cap EXCEPT !.audioCalls = @ + 1]
           ELSE /\ pc' = "login_solved"
                /\ cap' = [cap EXCEPT !.chain = "true"]
    /\ UNCHANGED << cfgVars, loopVars, profVars, store, jar, logins, summary, obs, ops >>

\* solveRecaptchaAudio: wait for the recaptcha iframe, click the checkbox of
\* the anchor frame.  Any error in it is caught and makes it return false.
SraWait ==
    /\ pc = "sra_wait"
    /\ \/ /\ pc' = "sra_bframe"
          /\ UNCHANGED cap
       \/ /\ pc' = "sc_gate"
          /\ cap' = [cap EXCEPT !.audioSolved = "false"]
    /\ UNCHANGED << cfgVars, loopVars, profVars, store, jar, logins, summary, obs, ops >>

\* Whether the strategy goes on to the audio challenge when the challenge frame
\* is there: messenger.js 149-151 returns false, messengerrrr.js 169-210 goes on.
AudioPathBuilt(v) == v = "enhanced"

\* A faulty strategy that goes on to the audio challenge whether or not the
\* challenge frame is there.
AfterFrameCheck_NoEarlyReturn(v, present) ==
    IF AudioPathBuilt(v) THEN "sra_audio" ELSE "sc_gate"

\* if (!challengeFrame) return true;  and what follows it in each build.
AfterFrameCheck(v, present) ==
    IF ~present THEN "login_solved"
    ELSE IF AudioPathBuilt(v) THEN "sra_audio" ELSE "sc_gate"

\* const challengeFrame = updatedFrames.find(... "recaptcha/api2/bframe")
SraBframe ==
    /\ pc = "sra_bframe"
    /\ \E present \in BOOLEAN :
         /\ pc' = AfterFrameCheck(variant, present)
         /\ cap' = [cap EXCEPT
                      !.frame = IF present THEN "present" ELSE "absent",
                      !.audioSolved = CASE pc' = "login_solved" -> "true"
                                        [] pc' = "sc_gate"      -> "false"
                                        [] OTHER                -> @,
                      !.chain = IF pc' = "login_solved" THEN "true" ELSE @]
    /\ UNCHANGED << cfgVars, loopVars, profVars, store, jar, logins, summary, obs, ops >>

\* const numbers = ["zero", ..., "nine"]
numbers == {"zero", "one", "two", "three", "four", "five", "six", "seven",
            "eight", "nine"}

\* processAudioChallenge(audioUrl): the audio is downloaded and not looked at;
\* the answer is numbers[Math.floor(Math.random() * numbers.length)], or null
\* when the download raises.
processAudioChallenge(downloaded) ==
    IF downloaded
      THEN {[text |-> w, source |-> "random"] : w \in numbers}
      ELSE {[text |-> "null", source |-> "none"]}

\* The audio path of messengerrrr.js 169-212: the audio control, the download
\* link, processAudioChallenge, then the response field and the verify
\* button.  cap.audio is the furthest of these steps that was performed.
SraAudio ==
    /\ pc = "sra_audio"
    /\ \/ \E clicked \in BOOLEAN :       \* no download link within 10000 ms, or
            /\ pc' = "sc_gate"            \* a lookup raised
            /\ cap' = [cap EXCEPT !.audio = IF clicked THEN "control" ELSE @,
                                  !.audioSolved = "false"]
       \/ \E downloaded \in BOOLEAN :
          \E a \in processAudioChallenge(downloaded) :
            \/ /\ pc' = "sc_gate"        \* no answer, or no response field
               /\ cap' = [cap EXCEPT !.audio = "transcription",
                                     !.audioSolved = "false"]
            \/ /\ a.text # "null"        \* typed, but no verify button
               /\ pc' = "sc_gate"
               /\ cap' = [cap EXCEPT !.audio = "transcription",
                                     !.answersTyped = @ + 1,
                                     !.answerSource = a.source,
                                     !.audioSolved = "false"]
            \/ /\ a.text # "null"        \* typed and submitted
               /\ pc' = "login_solved"
               /\ cap' = [cap EXCEPT !.audio = "transcription",
                                     !.answersTyped = @ + 1,
                                     !.answerSource = a.source,
                                     !.audioSolved = "true",
                                     !.chain = "true"]
    /\ UNCHANGED << cfgVars, loopVars, profVars, store, jar, logins, summary, obs, ops >>

\* A faulty gate that opens the manual-solve window whatever the mode.
ManualWindowOpens_Always(v, hl) == TRUE

\* Whether the manual-solve window opens after the audio strategy failed.
\* messenger.js 304 calls solveCaptcha(page) without the headless argument,
\* so !headless is true; messengerrrr.js 286 reads process.env.HEADLESS.
ManualWindowOpens(v, hl) == IF v = "actor" THEN TRUE ELSE hl # "true"

\* if (audioSolved) return true; if (!headless) { ... } return false;
\* What the strategy looked at is out of scope once it has returned.
ScGate ==
    /\ pc = "sc_gate"
    /\ IF ManualWindowOpens(variant, headless)
         THEN /\ pc' = "sc_poll"
              /\ elapsed' = 0
              /\ cap' = [cap EXCEPT !.frame = "unknown", !.audio = "none"]
         ELSE /\ cap' = [cap EXCEPT !.chain = "false",
                                    !.frame = "unknown", !.audio = "none"]
              /\ pc' = "login_solved"
              /\ UNCHANGED elapsed
    /\ UNCHANGED << cfgVars, loopVars, result, attempt, messageButtonPresent,
                    messageSent, store, jar, logins, summary, obs, ops >>

\* The markers a page may show at a poll; its wording plays no part there.
MarkerFacts == {c \in ChallengeFacts : ~c.text}

\* The poll of the manual-solve window: frames.some(f => f.src includes
\* "recaptcha").  Captcha-marked elements are not looked at.
stillPresent(c) == c.frame

\* A faulty window that is over before its first poll.
WindowOpen_Never(e) == FALSE

\* Date.now() - start < maxWait, with the polls themselves taking no time.
WindowOpen(e) == e < ManualMaxWaitMs

\* while (Date.now() - start < maxWait) { poll; await delay(2000); }
ScPoll ==
    /\ pc = "sc_poll"
    /\ IF WindowOpen(elapsed)
         THEN \E c \in MarkerFacts :
                IF stillPresent(c)
                  THEN /\ elapsed' = elapsed + ManualPollMs
                       /\ cap' = [cap EXCEPT !.polls = 1]
                       /\ UNCHANGED pc
                  ELSE /\ pc' = "login_solved"
                       /\ cap' = [cap EXCEPT !.chain = "true", !.polls = 1,
                                             !.left = IF c.element THEN "element"
                                                                   ELSE "none"]
                       /\ elapsed' = 0
         ELSE /\ cap' = [cap EXCEPT !.chain = "false"]
              /\ elapsed' = 0
              /\ pc' = "login_solved"
    /\ UNCHANGED << cfgVars, loopVars, result, attempt, messageButtonPresent,
                    messageSent, store, jar, logins, summary, obs, ops >>

\* A faulty login that ignores the value solveCaptcha returns.
ThrowsWhenUnsolved_Never(solved) == FALSE

\* if (!solved) { throw new Error("CAPTCHA could not be solved during login") }
ThrowsWhenUnsolved(solved) == ~solved

\* const solved = await solveCaptcha(page); if (!solved) throw ...;
\* await delay(rand(3000, 5000));  The record of a solved check is dropped.
LoginSolved ==
    /\ pc = "login_solved"
    /\ IF ThrowsWhenUnsolved(cap.chain = "true")
         THEN /\ LoginCatch(CaptchaUnsolvedMsg)
              /\ UNCHANGED cap
         ELSE /\ pc' = "login_verify"
              /\ cap' = IF cap.chain = "true" THEN FreshCap ELSE cap
              /\ UNCHANGED result
    /\ UNCHANGED << cfgVars, loopVars, attempt, messageButtonPresent,
                    messageSent, elapsed, store, jar, logins, summary, obs, ops >>

(***************************************************************************)
(* Outcome verification: the text of the first alert-role or error-marked  *)
(* element whose trimmed text is not empty.                                *)
(***************************************************************************)
Chars == {" ", "x"}

Texts == UNION {[1..n -> Chars] : n \in 0..MaxTextLen}

ErrorElementLists == UNION {[1..n -> Texts] : n \in 0..MaxErrorElements}

RECURSIVE TrimStart(_)
TrimStart(t) ==
    IF t # << >> /\ Head(t) = " " THEN TrimStart(Tail(t)) ELSE t

RECURSIVE TrimEnd(_)
TrimEnd(t) ==
    IF t # << >> /\ t[Len(t)] = " " THEN TrimEnd(SubSeq(t, 1, Len(t) - 1)) ELSE t

\* String.prototype.trim
Trim(t) == TrimEnd(TrimStart(t))

RECURSIVE AsString(_)
AsString(t) == IF t = << >> THEN "" ELSE Head(t) \o AsString(Tail(t))

\* A faulty lookup that reads the first matched element only.
errorMessage_FirstElement(els) == IF els = << >> THEN << >> ELSE Trim(Head(els))

\* for (const el of errorElements) if (el.textContent.trim()) return ...trim();
\* return null;   (null is rendered as the empty text)
RECURSIVE errorMessage(_)
errorMessage(els) ==
    IF els = << >> THEN << >>
    ELSE IF Trim(Head(els)) # << >> THEN Trim(Head(els))
    ELSE errorMessage(Tail(els))

\* The error performFacebookLogin raises when it is still on the login page.
LoginFailedError(els) ==
    IF errorMessage(els) # << >>
      THEN LoginFailedPrefix \o AsString(errorMessage(els))
      ELSE StillOnLoginMsg

LoginVerify ==
    /\ pc = "login_verify"
    /\ \E stillOnLoginPage \in {isLoginRequired(pg) : pg \in PageFacts} :
         IF stillOnLoginPage
           THEN \E els \in ErrorElementLists :
                  /\ obs' = [obs EXCEPT !.still = "yes", !.errorElements = els]
                  /\ LoginCatch(LoginFailedError(els))
                  /\ UNCHANGED cap
                  /\ UNCHANGED << jar, logins >>
           ELSE /\ obs' = [obs EXCEPT !.still = "no", !.login = "ok"]
                /\ jar' = jar \cup {SessionCookie}
                /\ logins' = [logins EXCEPT !.ok = @ + 1]
                /\ UNCHANGED cap
                /\ pc' = "smtp_save"
                /\ UNCHANGED result
    /\ UNCHANGED << cfgVars, loopVars, attempt, messageButtonPresent,
                    messageSent, elapsed, store, summary, ops >>

\* await saveCookies(page, email): the artifact is overwritten.
SmtpSave ==
    /\ pc = "smtp_save"
    /\ ops' = Did("saves")
    /\ \/ /\ store' = SaveInto(store, loginEmail, jar)
          /\ pc' = "smtp_return"
          /\ UNCHANGED result
       \/ /\ SmtpCatch(StoreErrorMsg)
          /\ UNCHANGED store
    /\ UNCHANGED << cfgVars, loopVars, attempt, messageButtonPresent,
                    messageSent, elapsed, jar, logins, summary, obs, cap >>

\* A faulty return navigation that is tried again when it fails.
AfterReturnLoad_Retries(loaded) == IF loaded THEN "smtp_scroll" ELSE "smtp_return"

\* What follows the page.goto of messenger.js 412-415: the delay and the
\* scroll when it resolves, the catch block of sendMessageToProfile when it
\* rejects.
AfterReturnLoad(loaded) == IF loaded THEN "smtp_scroll" ELSE "catch"

\* The return navigation to the profile: one page.goto outside the retry loop.
SmtpReturn ==
    /\ pc = "smtp_return"
    /\ ops' = Did("returnLoads")
    /\ \E loaded \in BOOLEAN :
         IF AfterReturnLoad(loaded) = "catch"
           THEN SmtpCatch(DriverTimeoutMsg)
           ELSE /\ pc' = AfterReturnLoad(loaded)
                /\ UNCHANGED result
    /\ UNCHANGED << cfgVars, loopVars, attempt, messageButtonPresent,
                    messageSent, elapsed, store, jar, logins, summary, obs, cap >>


(***************************************************************************)
(* The message delivery part of sendMessageToProfile.                      *)
(***************************************************************************)
\* humanScroll and the delay after it.
SmtpScroll ==
    /\ pc = "smtp_scroll"
    /\ pc' = "smtp_chat"
    /\ UNCHANGED << cfgVars, loopVars, profVars, store, jar, logins, summary, obs, ops, cap >>

\* The number of humanClick calls on a located chat-entry affordance:
\* messenger.js 438 clicks once; messengerrrr.js clicks at 580 (errors
\* swallowed) and again at 597.
ChatClickCalls(v) == IF v = "actor" THEN 1 ELSE 2

\* A faulty build without the guard: the missing affordance is reported by
\* the message of the messaging block's final else.
ChatMissingError_NoInterface(v) == "No messaging interface found on this profile"

\* if (!messageButton) throw new Error("Profile unavailable or ...")
ChatMissingError(v) == ProfileUnavailableMsg

\* A faulty order: the flag is set before the click is attempted.
ButtonFlag_BeforeClick(cur, c) == "Yes"

\* await humanClick(page, messageButton); messageButtonPresent = "Yes";  The
\* assignment is not reached when the click raises.
ButtonFlag(cur, c) == IF humanClick(c).raised THEN cur ELSE "Yes"

\* page.$(messageButtonSelector); a missing affordance raises
\* "Profile unavailable or no messaging option found".
SmtpChat ==
    /\ pc = "smtp_chat"
    /\ \/ /\ obs' = [obs EXCEPT !.chat = "absent"]
          /\ ops' = Did("chatLookups")
          /\ SmtpCatch(InnerError(variant, ChatMissingError(variant)))
          /\ UNCHANGED messageButtonPresent
       \/ /\ ChatClickCalls(variant) = 1
          /\ \E c \in ClickOutcomes :
               /\ obs' = [obs EXCEPT !.chat = "found", !.chatClick = c]
               /\ ops' = [ops EXCEPT !.chatLookups = @ + 1,
                                     !.chatClicks = IF humanClick(c).clicked THEN @ + 1 ELSE @]
               /\ messageButtonPresent' = ButtonFlag(messageButtonPresent, c)
               /\ IF humanClick(c).raised
                    THEN /\ result' = FailResult(profile,
                                                 InnerError(variant, DriverErrorMsg),
                                                 messageButtonPresent', messageSent)
                         /\ pc' = "push"
                    ELSE /\ pc' = "smtp_race"
                         /\ UNCHANGED result
       \/ /\ ChatClickCalls(variant) = 2
          /\ \E c \in ClickOutcomes :
               /\ obs' = [obs EXCEPT !.chat = "found"]
               /\ ops' = [ops EXCEPT !.chatLookups = @ + 1,
                                     !.chatClicks = IF humanClick(c).clicked THEN @ + 1 ELSE @]
               /\ pc' = "smtp_chat2"
               /\ UNCHANGED << result, messageButtonPresent >>
    /\ UNCHANGED << cfgVars, loopVars, attempt, messageSent, elapsed, store, jar, logins, summary, cap >>

\* messengerrrr.js 594-598: the second humanClick, then the flag.
SmtpChat2 ==
    /\ pc = "smtp_chat2"
    /\ \E c \in ClickOutcomes :
         /\ obs' = [obs EXCEPT !.chatClick = c]
         /\ ops' = [ops EXCEPT !.chatClicks = IF humanClick(c).clicked THEN @ + 1 ELSE @]
         /\ messageButtonPresent' = ButtonFlag(messageButtonPresent, c)
         /\ IF humanClick(c).raised
              THEN /\ result' = FailResult(profile,
                                           InnerError(variant, DriverErrorMsg),
                                           messageButtonPresent', messageSent)
                   /\ pc' = "push"
              ELSE /\ pc' = "smtp_race"
                   /\ UNCHANGED result
    /\ UNCHANGED << cfgVars, loopVars, attempt, messageSent, elapsed, store, jar, logins, summary, cap >>

\* The timeout of each of the three waits and the ceiling delay of the race,
\* in milliseconds.
WaitTimeoutMs == 15000
RaceCeilingMs == 10000

\* The moments at which a wait is followed settling by itself: one before the
\* ceiling and one between the ceiling and its timeout.
EarlyMs == 4000
LateMs == 12000

RaceTimeoutMsg == "Waiting failed: 15000ms exceeded"

\* How a wait with a timeout settles: it resolves or the driver rejects it
\* at some moment before the timeout, or it rejects at the timeout.
Settlements(timeout) ==
    {[at |-> t, how |-> h] : t \in {EarlyMs, LateMs}, h \in {"resolved", "raised"}}
        \cup {[at |-> timeout, how |-> "timeout"]}

\* The array passed to Promise.race at messenger.js 441-449.
RaceEntries(rich, plain, nav) ==
    << [name |-> "rich", at |-> rich.at, how |-> rich.how],
       [name |-> "plain", at |-> plain.at, how |-> plain.how],
       [name |-> "navigation", at |-> nav.at, how |-> nav.how],
       [name |-> "ceiling", at |-> RaceCeilingMs, how |-> "resolved"] >>

\* A faulty combinator that waits for every entry and rejects with the first
\* rejection among them (Promise.all).
PromiseRace_AllSettled(ps) ==
    LET rejected == {k \in 1..Len(ps) : ps[k].how # "resolved"}
        among == IF rejected # {} THEN rejected ELSE 1..Len(ps)
        k == CHOOSE k \in among :
                 \A j \in among : IF rejected # {}
                                     THEN ps[k].at < ps[j].at
                                              \/ (ps[k].at = ps[j].at /\ k <= j)
                                     ELSE ps[k].at > ps[j].at
                                              \/ (ps[k].at = ps[j].at /\ k >= j)
    IN ps[k]

\* Promise.race(ps): settles as the entry that settles first does; entries
\* settling at the same moment are taken in array order.
PromiseRace(ps) ==
    LET k == CHOOSE k \in 1..Len(ps) :
                 \A j \in 1..Len(ps) : \/ ps[k].at < ps[j].at
                                        \/ (ps[k].at = ps[j].at /\ k <= j)
    IN ps[k]

\* await Promise.race([...]); a rejection of the race is an error of the
\* messaging block.
SmtpRace ==
    /\ pc = "smtp_race"
    /\ \E rich \in Settlements(WaitTimeoutMs),
          plain \in Settlements(WaitTimeoutMs),
          nav \in Settlements(WaitTimeoutMs) :
         LET w == PromiseRace(RaceEntries(rich, plain, nav))
         IN CASE w.how = "resolved" -> /\ pc' = "smtp_composer"
                                       /\ UNCHANGED result
              [] w.how = "raised"   -> SmtpCatch(InnerError(variant, DriverErrorMsg))
              [] w.how = "timeout"  -> SmtpCatch(InnerError(variant, RaceTimeoutMsg))
    /\ UNCHANGED << cfgVars, loopVars, attempt, messageButtonPresent,
                    messageSent, elapsed, store, jar, logins, summary, obs, ops, cap >>

\* The composer lookup over messageInputSelectors; none found raises
\* "Message input field not found".
SmtpComposer ==
    /\ pc = "smtp_composer"
    /\ ops' = Did("composerLookups")
    /\ \/ /\ obs' = [obs EXCEPT !.composer = "found"]
          /\ pc' = "smtp_type"
          /\ UNCHANGED result
       \/ /\ obs' = [obs EXCEPT !.composer = "absent"]
          /\ SmtpCatch(InnerError(variant, InputNotFoundMsg))
    /\ UNCHANGED << cfgVars, loopVars, attempt, messageButtonPresent,
                    messageSent, elapsed, store, jar, logins, summary, cap >>

NotIterableMsg == "text is not iterable"

\* humanClick on the composer, then the text: messageInput.type(message) for
\* a rich-text region, humanType otherwise.  Both iterate over the message.
SmtpType ==
    /\ pc = "smtp_type"
    /\ \/ /\ message = "ok"
          /\ obs' = [obs EXCEPT !.typing = "ok"]
          /\ ops' = Did("typed")
          /\ pc' = "smtp_send"
          /\ UNCHANGED result
       \/ /\ message # "ok"
          /\ obs' = [obs EXCEPT !.typing = "raised"]
          /\ SmtpCatch(InnerError(variant, NotIterableMsg))
          /\ UNCHANGED ops
       \/ /\ obs' = [obs EXCEPT !.typing = "raised"]
          /\ SmtpCatch(InnerError(variant, DriverErrorMsg))
          /\ UNCHANGED ops
    /\ UNCHANGED << cfgVars, loopVars, attempt, messageButtonPresent,
                    messageSent, elapsed, store, jar, logins, summary, cap >>

\* A faulty send step that presses Enter whether or not a control was found.
SendOps_EnterAlways(o, found, c) ==
    [o EXCEPT !.sendClicks = IF found /\ humanClick(c).clicked THEN @ + 1 ELSE @,
              !.enterKeys = @ + 1]

\* A faulty send step without the fallback: nothing is issued when no
\* control is found.
SendOps_NoFallback(o, found, c) ==
    IF found
      THEN [o EXCEPT !.sendClicks = IF humanClick(c).clicked THEN @ + 1 ELSE @]
      ELSE o

\* What is issued to the page for the send step: if (sendButton) a
\* humanClick on it, else page.keyboard.press("Enter").
SendOps(o, found, c) ==
    IF found
      THEN [o EXCEPT !.sendClicks = IF humanClick(c).clicked THEN @ + 1 ELSE @]
      ELSE [o EXCEPT !.enterKeys = @ + 1]

\* A faulty order: the flag is set before the click is attempted.
SentFlag_BeforeClick(cur, c) == "Yes"

\* await humanClick(page, sendButton); messageSent = "Yes";  The assignment
\* is not reached when the click raises.
SentFlag(cur, c) == IF humanClick(c).raised THEN cur ELSE "Yes"

\* The send affordance over sendSelectors: humanClick when one is found,
\* page.keyboard.press("Enter") otherwise; messageSent = "Yes" either way.
SmtpSend ==
    /\ pc = "smtp_send"
    /\ \/ \E c \in ClickOutcomes :
            /\ obs' = [obs EXCEPT !.send = "found", !.sendClick = c]
            /\ ops' = SendOps(ops, TRUE, c)
            /\ messageSent' = SentFlag(messageSent, c)
            /\ IF humanClick(c).raised
                 THEN /\ result' = FailResult(profile,
                                              InnerError(variant, DriverErrorMsg),
                                              messageButtonPresent, messageSent')
                      /\ pc' = "push"
                 ELSE /\ pc' = "smtp_settle"
                      /\ UNCHANGED result
       \/ /\ obs' = [obs EXCEPT !.send = "absent"]
          /\ \/ /\ ops' = SendOps(ops, FALSE, "none")
                /\ messageSent' = "Yes"
                /\ pc' = "smtp_settle"
                /\ UNCHANGED result
             \/ /\ SmtpCatch(InnerError(variant, DriverErrorMsg))
                /\ UNCHANGED << ops, messageSent >>
    /\ UNCHANGED << cfgVars, loopVars, attempt, messageButtonPresent, elapsed,
                    store, jar, logins, summary, cap >>

\* delay(rand(4000, 7000)), then return { success: true, ... }.
SmtpSettle ==
    /\ pc = "smtp_settle"
    /\ result' = SuccessResult(profile, messageButtonPresent, messageSent)
    /\ pc' = "push"
    /\ UNCHANGED << cfgVars, loopVars, attempt, messageButtonPresent,
                    messageSent, elapsed, store, jar, logins, summary, obs, ops, cap >>

Next ==
    \/ Validate \/ Launch \/ Configure \/ Home
    \/ LoopHead \/ Pace \/ Push \/ LoopCatch \/ CloseBrowser \/ Summary
    \/ SmtpLoad \/ SmtpNav \/ SmtpBackoff \/ SmtpDetect
    \/ LoginWait \/ LoginEmail \/ LoginPass \/ LoginSubmit \/ LoginRace
    \/ LoginCaptcha \/ ScDetect \/ SraWait \/ SraBframe \/ SraAudio
    \/ ScGate \/ ScPoll \/ LoginSolved \/ LoginVerify
    \/ SmtpSave \/ SmtpReturn
    \/ SmtpScroll \/ SmtpChat \/ SmtpChat2 \/ SmtpRace \/ SmtpComposer
    \/ SmtpType \/ SmtpSend \/ SmtpSettle

Spec == Init /\ [][Next]_vars

\* The run under a scheduler that lets a poll of the manual-solve window that
\* can be made be made: the awaited page.evaluate and delay(2000) settle.
FairSpec == Spec /\ WF_vars(ScPoll)

(***************************************************************************)
(* Properties.                                                             *)
(***************************************************************************)
\* The control points inside one call of sendMessageToProfile.
ProfilePcs ==
    {"smtp_load", "smtp_nav", "smtp_backoff", "smtp_detect", "login_wait",
     "login_email", "login_pass", "login_submit", "login_race",
     "login_captcha", "sc_detect", "sra_wait", "sra_bframe", "sra_audio",
     "sc_gate", "sc_poll", "login_solved", "login_verify", "smtp_save",
     "smtp_return", "smtp_scroll", "smtp_chat", "smtp_chat2", "smtp_race",
     "smtp_composer", "smtp_type", "smtp_send", "smtp_settle"}

\* C1: when a run over n validated profiles ends normally, exactly n records
\* have been emitted to the sink and the k-th record carries the profileId of
\* the k-th input profile (and, in the build that hands its results over at
\* the end, the same holds of the results handed over).
C1_OneRecordPerProfileInOrder ==
    pc = "done" =>
        /\ Len(sink) = Len(profiles)
        /\ \A k \in 1..Len(profiles) : sink[k].profileId = profiles[k].id
        /\ variant = "enhanced" =>
              /\ Len(dataset) = Len(profiles)
              /\ \A k \in 1..Len(profiles) : dataset[k].profileId = profiles[k].id

C1_Witness ==
    /\ pc = "done"
    /\ Len(profiles) = MaxProfiles
    /\ Len(sink) = MaxProfiles
    /\ ~sink[1].success
    /\ sink[MaxProfiles].success

\* C2: a stage failure of profile i never leaves sendMessageToProfile as an
\* error: every step taken inside the call stays inside it or returns a
\* result; a failed result is recorded as profile i's own record, after the
\* records already emitted, and the loop moves on to profile i+1, which is
\* processed whenever it exists; the loop's own handler is entered only by
\* a rejection of the sink.
C2_StageFailureIsContained ==
    [][ /\ (pc \in ProfilePcs) => (pc' \in ProfilePcs \cup {"push"})
        /\ (pc' = "loop_catch") => (pc = "push" /\ thrown' = SinkErrorMsg)
        /\ (pc = "push" /\ ~result.success /\ pc' = "loop") =>
              /\ result.profileId = profiles[i].id
              /\ Len(sink) = i - 1
              /\ sink' = Append(sink, Stamped(result))
              /\ i' = i + 1
        /\ (pc = "loop" /\ i <= Len(profiles)) =>
              /\ pc' \in {"pace", "smtp_load"}
              /\ i' = i
              /\ sink' = sink
        /\ (pc = "pace") => (pc' = "smtp_load" /\ i' = i)
      ]_vars

C2_Witness ==
    /\ pc = "smtp_chat"
    /\ i = 2
    /\ Len(sink) = 1
    /\ ~sink[1].success
    /\ sink[1].profileId = profiles[1].id
    /\ sink[1].error = CaptchaUnsolvedMsg

\* The records a run has produced so far: emitted, collected, handed over,
\* and the one about to be emitted.
AllRecords ==
    {sink[k] : k \in 1..Len(sink)} \cup {results[k] : k \in 1..Len(results)}
        \cup {dataset[k] : k \in 1..Len(dataset)}
        \cup (IF pc = "push" THEN {result} ELSE {})

\* C3: every record with success = true has messageSent = "Yes".
C3_SuccessImpliesSent ==
    \A r \in AllRecords : r.success => r.messageSent = "Yes"

C3_Witness ==
    \E k \in 1..Len(sink) : sink[k].success /\ sink[k].messageSent = "Yes"

C5_NoLoginWhenNotRequired ==
    obs.needsLogin = "no" =>
        /\ ops.loginCalls = 0
        /\ ops.identityTyped = 0
        /\ ops.secretTyped = 0
        /\ ops.submits = 0
        /\ ops.saves = 0
        /\ ops.returnLoads = 0
        /\ obs.login = "none"

C5_Witness ==
    /\ pc = "push"
    /\ obs.needsLogin = "no"
    /\ result.success
    /\ ops.loginCalls = 0

\* C6: when navigation succeeds, no login is required and the page exposes
\* the chat affordance, a composer and a send control, the outcome has
\* success = true, messageButtonPresent = "Yes" and messageSent = "Yes", the
\* send control has been clicked once and Enter has not been pressed.
C6_HappyPath ==
    ( /\ pc = "push"
      /\ obs.nav = "ok"
      /\ obs.needsLogin = "no"
      /\ obs.chat = "found" /\ obs.chatClick = "clicked"
      /\ obs.composer = "found" /\ obs.typing = "ok"
      /\ obs.send = "found" /\ obs.sendClick = "clicked" )
    => /\ result.success
       /\ result.error = NoError
       /\ result.profileId = profiles[i].id
       /\ result.messageButtonPresent = "Yes"
       /\ result.messageSent = "Yes"
       /\ ops.typed = 1
       /\ ops.sendClicks = 1
       /\ ops.enterKeys = 0

C6_Witness ==
    /\ pc = "push"
    /\ obs.nav = "ok"
    /\ obs.needsLogin = "no"
    /\ obs.chat = "found" /\ obs.chatClick = "clicked"
    /\ obs.composer = "found" /\ obs.typing = "ok"
    /\ obs.send = "found" /\ obs.sendClick = "clicked"
    /\ result.success
    /\ ops.sendClicks = 1

\* C7: when the profile page has no chat-entry affordance, the outcome has
\* success = false, error "Profile unavailable or no messaging option
\* found", messageButtonPresent = "No" and messageSent = "No", and no
\* composer lookup, typing or send has been attempted.
C7_NoChatAffordance ==
    obs.chat = "absent" =>
        /\ pc = "push"
        /\ ~result.success
        /\ result.error = "Profile unavailable or no messaging option found"
        /\ result.messageButtonPresent = "No"
        /\ result.messageSent = "No"
        /\ ops.chatClicks = 0
        /\ ops.composerLookups = 0
        /\ ops.typed = 0
        /\ ops.sendClicks = 0
        /\ ops.enterKeys = 0

C7_Witness ==
    /\ pc = "push"
    /\ obs.chat = "absent"
    /\ obs.nav = "ok"
    /\ ~result.success
    /\ result.messageButtonPresent = "No"

\* C8: when the chat affordance is present and clicked but no composer is
\* found, the outcome has success = false, messageButtonPresent = "Yes",
\* messageSent = "No", and its error is the composer-not-found error, not the
\* messaging-unavailable error.
C8_ComposerNotFound ==
    ( /\ pc = "push"
      /\ obs.chat = "found" /\ obs.chatClick = "clicked"
      /\ obs.composer = "absent" )
    => /\ ~result.success
       /\ result.messageButtonPresent = "Yes"
       /\ result.messageSent = "No"
       /\ result.error = "Message input field not found"
       /\ result.error # "Profile unavailable or no messaging option found"

\* The text of a failed login stated from the elements: the characters from
\* the first to the last non-blank one of the first element that has a
\* non-blank character, after "Login failed: "; "Login failed: Still on
\* login page" when no element has one.
NonBlank(t) == {j \in 1..Len(t) : t[j] # " "}

Least(S) == CHOOSE m \in S : \A n \in S : m <= n

Greatest(S) == CHOOSE m \in S : \A n \in S : n <= m

ExpectedLoginError(els) ==
    LET withText == {k \in 1..Len(els) : NonBlank(els[k]) # {}}
    IN  IF withText = {}
          THEN "Login failed: Still on login page"
          ELSE LET t == els[Least(withText)]
               IN  "Login failed: "
                      \o AsString(SubSeq(t, Least(NonBlank(t)), Greatest(NonBlank(t))))

\* C9: when login is required, the credentials are submitted and the page is
\* still a login page afterwards, the outcome has success = false and its
\* error is "Login failed: " followed by the trimmed text of the first alert
\* or error element with non-empty text, or "Login failed: Still on login
\* page" when there is none.
C9_LoginStillRequired ==
    ( /\ pc = "push"
      /\ obs.needsLogin = "yes"
      /\ ops.submits >= 1
      /\ obs.still = "yes" )
    => /\ ~result.success
       /\ result.error = ExpectedLoginError(obs.errorElements)
       /\ ops.saves = 0

C9_Witness ==
    /\ pc = "push"
    /\ obs.needsLogin = "yes"
    /\ ops.submits = 1
    /\ obs.still = "yes"
    /\ obs.errorElements = << <<" ">>, <<" ", "x">> >>
    /\ result.error = "Login failed: x"

\* C10: when the check after submission detects a challenge and solveCaptcha
\* returns false, authentication fails: the session is not saved, no step of
\* the delivery pipeline runs, and the outcome has success = false with the
\* error saying that the challenge could not be solved.
C10_UnsolvedChallengeFailsLogin ==
    cap.chain = "false" =>
        /\ pc \in {"login_solved", "push"}
        /\ obs.login = "submitted"
        /\ ops.saves = 0
        /\ ops.returnLoads = 0
        /\ ops.chatLookups = 0
        /\ ops.chatClicks = 0
        /\ ops.composerLookups = 0
        /\ ops.typed = 0
        /\ ops.sendClicks = 0
        /\ ops.enterKeys = 0
        /\ pc = "push" =>
              /\ ~result.success
              /\ result.error = "CAPTCHA could not be solved during login"
              /\ result.messageButtonPresent = "No"
              /\ result.messageSent = "No"

C10_Witness ==
    /\ pc = "push"
    /\ cap.chain = "false"
    /\ cap.challenge # "none"
    /\ ~result.success
    /\ result.error = CaptchaUnsolvedMsg

\* The control points inside performFacebookLogin and solveCaptcha.
LoginPcs ==
    {"login_wait", "login_email", "login_pass", "login_submit", "login_race",
     "login_captcha", "sc_detect", "sra_wait", "sra_bframe", "sra_audio",
     "sc_gate", "sc_poll", "login_solved", "login_verify"}

\* No step of the delivery pipeline has run for the current profile.
NoDeliveryStep ==
    /\ ops.chatLookups = 0
    /\ ops.chatClicks = 0
    /\ ops.composerLookups = 0
    /\ ops.typed = 0
    /\ ops.sendClicks = 0
    /\ ops.enterKeys = 0

\* C11: within one profile performFacebookLogin is invoked at most once and
\* the credentials are typed and submitted at most once; once the login has
\* failed the call has returned a failed outcome, with no second attempt, no
\* save of the session and no step of the delivery pipeline.
C11_LoginAtMostOnce ==
    /\ ops.loginCalls <= 1
    /\ ops.identityTyped <= 1
    /\ ops.secretTyped <= 1
    /\ ops.submits <= 1
    /\ (ops.loginCalls = 1 /\ obs.login # "ok" /\ pc \notin LoginPcs) =>
          /\ pc = "push"
          /\ ~result.success
          /\ ops.saves = 0
          /\ ops.returnLoads = 0
          /\ NoDeliveryStep

C11_Witness ==
    /\ pc = "push"
    /\ ops.loginCalls = 1
    /\ ops.submits = 1
    /\ obs.login = "submitted"
    /\ obs.still = "yes"
    /\ ~result.success
    /\ NoDeliveryStep

\* C12: in a run of two profiles in which the first profile's login has
\* succeeded, when the target honours the cookies of the browser context on
\* the second profile, the second profile is processed without login:
\* performFacebookLogin has been invoked exactly once in the run.
C12_SecondProfileSkipsLogin ==
    ( /\ Len(profiles) = 2
      /\ i = 2
      /\ pc \in ProfilePcs \cup {"push"}
      /\ obs.session = "honoured"
      /\ logins.ok - (IF obs.login = "ok" THEN 1 ELSE 0) = 1 )
    => /\ obs.needsLogin = "no"
       /\ ops.loginCalls = 0
       /\ logins.calls = 1
       /\ logins.ok = 1

C12_Witness ==
    /\ Len(profiles) = 2
    /\ i = 2
    /\ pc = "push"
    /\ obs.session = "honoured"
    /\ obs.needsLogin = "no"
    /\ logins = [calls |-> 1, ok |-> 1]
    /\ sink[1].success
    /\ result.success

\* C13: saveCookies is called for a profile exactly when performFacebookLogin
\* has returned successfully for it, once, after the verification of the
\* login and before the return navigation; the session artifact changes only
\* by that save, so a failed authentication never writes it.
C13_SaveOnlyAfterLogin ==
    /\ [](/\ ops.saves <= 1
          /\ ops.saves = 1 => (obs.login = "ok" /\ obs.still = "no")
          /\ (obs.login = "ok" /\ pc # "smtp_save") => ops.saves = 1
          /\ ops.returnLoads >= 1 => ops.saves = 1)
    /\ [][ store' # store =>
              /\ pc = "smtp_save"
              /\ obs.login = "ok"
              /\ ops.saves = 0
              /\ ops.returnLoads = 0
              /\ store' = SaveInto(store, loginEmail, jar) ]_vars

C13_Witness ==
    /\ pc = "smtp_return"
    /\ obs.login = "ok"
    /\ ops.saves = 1
    /\ ops.returnLoads = 0
    /\ SessionCookie \in jar
    /\ cookieKey(loginEmail) \in DOMAIN store
    /\ store[cookieKey(loginEmail)] = jar

(***************************************************************************)
(* The session store on its own: saveCookies twice under one identity,     *)
(* with the cookie sets A then B in the context, then loadCookies into a   *)
(* fresh context.                                                          *)
(***************************************************************************)
\* The stores the first save may find: empty, or holding the artifact of a
\* one-character identity.
PriorStores ==
    {EmptyStore} \cup {SaveInto(EmptyStore, e, {"pref"}) : e \in [1..1 -> IdChars]}

StoreInputs ==
    [identity : Identities, a : CookieSets, b : CookieSets, prior : PriorStores]

StoreInit ==
    /\ Unstarted
    /\ input \in StoreInputs
    /\ store = input.prior
    /\ jar = input.a
    /\ pc = "st_save_a"

stFrame ==
    << cfgVars, loopVars, attempt, messageButtonPresent, messageSent, elapsed,
       logins, summary, obs, cap, ops >>

\* saveCookies(page, identity) with A in the context; the context then holds B.
StSaveA ==
    /\ pc = "st_save_a"
    /\ store' = SaveInto(store, input.identity, jar)
    /\ jar' = input.b
    /\ pc' = "st_save_b"
    /\ UNCHANGED << stFrame, result >>

\* saveCookies(page, identity) with B in the context; a fresh context follows.
StSaveB ==
    /\ pc = "st_save_b"
    /\ store' = SaveInto(store, input.identity, jar)
    /\ jar' = {}
    /\ pc' = "st_load"
    /\ UNCHANGED << stFrame, result >>

\* loadCookies(page, identity)
StLoad ==
    /\ pc = "st_load"
    /\ \E o \in loadCookies(store, input.identity) :
         /\ result' = o
         /\ jar' = jar \cup o.installed
    /\ pc' = "st_done"
    /\ UNCHANGED << stFrame, store >>

StoreNext == StSaveA \/ StSaveB \/ StLoad

StoreSpec == StoreInit /\ [][StoreNext]_vars

(***************************************************************************)
(* isLoginRequired and the race of the composer wait, each applied to      *)
(* every input of a bounded set.                                           *)
(***************************************************************************)
FnInit ==
    /\ Unstarted
    /\ store = EmptyStore
    /\ jar = {}
    /\ \/ /\ pc = "fn_detect"
          /\ input \in [page : PageFacts]
       \/ /\ pc = "fn_race"
          /\ input \in [rich : Settlements(WaitTimeoutMs),
                         plain : Settlements(WaitTimeoutMs),
                         nav : Settlements(WaitTimeoutMs)]

fnFrame ==
    << cfgVars, loopVars, attempt, messageButtonPresent, messageSent, elapsed,
       store, jar, logins, summary, obs, cap, ops >>

\* const needsLogin = await isLoginRequired(page)
FnDetect ==
    /\ pc = "fn_detect"
    /\ result' = [needsLogin |-> isLoginRequired(input.page)]
    /\ pc' = "fn_detected"
    /\ UNCHANGED fnFrame

\* await Promise.race([rich, plain, navigation, delay(10000)])
FnRace ==
    /\ pc = "fn_race"
    /\ result' = PromiseRace(RaceEntries(input.rich, input.plain, input.nav))
    /\ pc' = "fn_raced"
    /\ UNCHANGED fnFrame

FnNext == FnDetect \/ FnRace

FnSpec == FnInit /\ [][FnNext]_vars

\* C14: after save(identity, A), save(identity, B) and load(identity), the
\* artifact under the identity's key is B and a load that installs anything
\* installs exactly B, whatever A was; the store holds one artifact under
\* that key and the artifacts under other keys are as they were.
C14_SaveReplaces ==
    pc = "st_done" =>
        LET key == cookieKey(input.identity)
        IN  /\ key \in DOMAIN store
            /\ store[key] = input.b
            /\ DOMAIN store = DOMAIN input.prior \cup {key}
            /\ \A k \in DOMAIN input.prior \ {key} : store[k] = input.prior[k]
            /\ result.case # "absent"
            /\ result.returned => (result.installed = input.b /\ jar = input.b)
            /\ ~result.returned => jar = {}

C14_Witness ==
    /\ pc = "st_done"
    /\ input.identity = << "a", "+" >>
    /\ input.a = {"sid"}
    /\ input.b = {"pref"}
    /\ cookieKey(<< "!" >>) \in DOMAIN input.prior
    /\ result.returned
    /\ result.installed = {"pref"}
    /\ jar = {"pref"}

\* C15: when there is no artifact for the identity, or page.setCookie
\* rejects the loaded cookies, loadCookies returns false without raising:
\* the cookies of the context are as before the call, the next step is the
\* navigation, and a profile that ends after such a load has been navigated
\* to.
C15_LoadFailureIsNotFatal ==
    /\ [][ pc = "smtp_load" =>
             /\ cookieKey(loginEmail) \notin DOMAIN store => obs'.loaded = "absent"
             /\ obs'.loaded \in {"absent", "rejected"} =>
                   /\ obs'.loadReturned = "false"
                   /\ jar' = jar
                   /\ pc' = "smtp_nav"
                   /\ result' = Undefined ]_vars
    /\ []((obs.loaded \in {"absent", "rejected"} /\ pc # "smtp_nav") => ops.loads >= 1)

C15_Witness ==
    /\ pc = "smtp_detect"
    /\ obs.loaded = "rejected"
    /\ obs.loadReturned = "false"
    /\ cookieKey(loginEmail) \in DOMAIN store
    /\ jar = {}
    /\ obs.nav = "ok"

\* An input that lacks a required field or has one of the wrong shape.
Defective(inp) ==
    \/ inp.loginEmail = "absent"
    \/ inp.loginPassword = "absent"
    \/ inp.profiles \in {"absent", "empty", "notarray"}
    \/ inp.message \in {"absent", "nonstring"}

\* C16: for every input in which the identity, the secret, the profiles or
\* the message is absent, or the profiles are empty or not a sequence, or the
\* message is not a string, validation aborts the run with an error before
\* the browser is launched and no record is emitted.
C16_ValidationFailsFast ==
    [][ (pc = "validate" /\ Defective(input)) =>
            /\ pc' = "invalid"
            /\ thrown' # NoError
            /\ browser' = "none"
            /\ sink' = << >> ]_vars

\* C17: when the input omits the headless option, the manual-solve window of
\* solveCaptcha is never entered.
C17_DefaultIsNonInteractive ==
    input.headless = "absent" => (pc # "sc_poll" /\ cap.polls = 0)

\* C18: in a run with headless = true, when a challenge is detected after the
\* submission and the checkbox/audio strategy returns false, solveCaptcha
\* returns false without any iteration of the manual-solve poll loop.
C18_HeadlessSkipsManualWindow ==
    /\ [](headless = "true" => (pc # "sc_poll" /\ cap.polls = 0 /\ elapsed = 0))
    /\ [][ (pc = "sc_gate" /\ headless = "true") =>
              /\ cap'.chain = "false"
              /\ cap'.polls = 0
              /\ pc' = "login_solved" ]_vars

C18_Witness ==
    /\ headless = "true"
    /\ pc = "push"
    /\ cap.challenge # "none"
    /\ cap.audioCalls = 1
    /\ cap.chain = "false"
    /\ cap.polls = 0
    /\ ~result.success

\* C19: profiles are processed one at a time: whenever a step of profile i
\* is under way or its result is about to be emitted, the records of the
\* profiles before i, and only those, have been emitted, in order; and
\* between the emission of a record and the start of the next profile no
\* page operation has been issued.
C19_OneProfileAtATime ==
    /\ (pc \in ProfilePcs \cup {"push"}) =>
          /\ i <= Len(profiles)
          /\ Len(sink) = i - 1
          /\ \A k \in 1..Len(sink) : sink[k].profileId = profiles[k].id
    /\ pc = "push" => result.profileId = profiles[i].id
    /\ pc \in {"loop", "pace", "smtp_load"} => [ops EXCEPT !.pause = 0] = FreshOps

C19_Witness ==
    /\ pc = "smtp_send"
    /\ i = 2
    /\ Len(sink) = 1
    /\ sink[1].profileId = profiles[1].id
    /\ ops.loads >= 1
    /\ ops.typed = 1

\* C20: when a run writes its summary, successful + failed = totalProfiles =
\* the number of input profiles, and the two counts are the numbers of input
\* profiles whose emitted record has success = true and success = false.
C20_SummaryCounts ==
    (pc = "done" /\ variant = "actor") =>
        /\ summary.successful + summary.failed = summary.totalProfiles
        /\ summary.totalProfiles = Len(profiles)
        /\ Len(sink) = Len(profiles)
        /\ summary.successful
              = Cardinality({k \in 1..Len(profiles) : sink[k].success})
        /\ summary.failed
              = Cardinality({k \in 1..Len(profiles) : ~sink[k].success})

C20_Witness ==
    /\ pc = "done"
    /\ variant = "actor"
    /\ Len(profiles) = MaxProfiles
    /\ summary.successful = 1
    /\ summary.failed = MaxProfiles - 1
    /\ sink[1].messageButtonPresent = "Yes"
    /\ ~sink[1].success

\* C21: humanClick on an element that exposes no bounding box moves no
\* pointer, issues no click, and reports the failure to its caller: it raises,
\* or returns something a caller can tell from the return after a click.
C21_NoBoxIsReported ==
    \A c \in {obs.chatClick, obs.sendClick} :
        c = "nobox" =>
            /\ ~humanClick(c).moved
            /\ ~humanClick(c).clicked
            /\ \/ humanClick(c).raised
               \/ humanClick(c).returned # humanClick("clicked").returned

\* C22: when the composer is found and the text is injected but no selector
\* of the send list matches, exactly one Enter key event is issued and no
\* click, and the outcome has messageSent = "Yes" and success = true; nothing
\* is read back from the page between the key event and the outcome.  The
\* only other outcome is the key press itself being rejected by the driver,
\* in which case no key event was issued.
C22_EnterFallback ==
    (pc = "push" /\ obs.typing = "ok" /\ obs.send = "absent") =>
        \/ /\ result.success
           /\ result.messageSent = "Yes"
           /\ ops.enterKeys = 1
           /\ ops.sendClicks = 0
           /\ ops.typed = 1
        \/ /\ ~result.success
           /\ ops.enterKeys = 0
           /\ result.error = InnerError(variant, DriverErrorMsg)

C22_Witness ==
    /\ pc = "push"
    /\ obs.composer = "found"
    /\ obs.typing = "ok"
    /\ obs.send = "absent"
    /\ ops.enterKeys = 1
    /\ result.success
    /\ result.messageSent = "Yes"

\* C23: the initial navigation makes at most maxAttempts = 3 page loads;
\* every failed load but the last is followed by one backoff pause of 2000
\* to 4000 ms; a successful load ends the loop; the third failure raises an
\* error that carries the message of that last failure, and that error is
\* the error of the profile's outcome.
C23_BoundedNavigation ==
    /\ attempt <= maxAttempts
    /\ ops.loads <= maxAttempts
    /\ pc = "smtp_backoff" =>
          /\ ops.loads = attempt
          /\ attempt < maxAttempts
          /\ ops.backoffs = ops.loads - 1
          /\ obs.navError \in {DriverTimeoutMsg, PageNotLoadedMsg}
    /\ pc = "smtp_nav" =>
          /\ ops.loads = attempt
          /\ ops.backoffs = ops.loads
          /\ obs.nav = "pending"
          /\ ops.loads > 0 => ops.pause \in BackoffMinMs..BackoffMaxMs
    /\ obs.nav = "ok" =>
          /\ pc \notin {"smtp_nav", "smtp_backoff"}
          /\ ops.loads = attempt
          /\ ops.loads >= 1
          /\ ops.backoffs = ops.loads - 1
    /\ obs.nav = "exhausted" =>
          /\ pc = "push"
          /\ ops.loads = maxAttempts
          /\ ops.backoffs = maxAttempts - 1
          /\ obs.navError \in {DriverTimeoutMsg, PageNotLoadedMsg}
          /\ ~result.success
          /\ result.error = NavExhaustedPrefix \o obs.navError

C23_Witness ==
    /\ pc = "push"
    /\ obs.nav = "exhausted"
    /\ ops.loads = maxAttempts
    /\ ops.backoffs = maxAttempts - 1
    /\ result.error = NavExhaustedPrefix \o PageNotLoadedMsg

\* C24: in the checkbox/audio strategy, whenever no challenge frame is there
\* after the checkbox step, the strategy returns true and the audio path is
\* not attempted: no audio control is activated, no audio is retrieved, no
\* transcription is requested and nothing is typed into the response field.
C24_FrameAbsentReturnsTrue ==
    cap.frame = "absent" =>
        /\ pc = "login_solved"
        /\ cap.audioSolved = "true"
        /\ cap.chain = "true"
        /\ cap.audio = "none"
        /\ cap.answersTyped = 0
        /\ cap.answerSource = "none"
        /\ cap.polls = 0

C24_Witness ==
    /\ cap.frame = "absent"
    /\ cap.audioCalls = 1
    /\ cap.audioSolved = "true"
    /\ pc = "login_solved"

\* C26: there is no transcription backend, so when a challenge frame appears
\* the strategy returns false, and it never types into the response field a
\* value that was not produced by transcribing the audio.
C26_NoFabricatedAnswer ==
    /\ cap.frame = "present" => cap.audioSolved # "true"
    /\ cap.answersTyped > 0 => cap.answerSource = "transcript"

\* C25: once entered, the manual-solve window terminates.  It returns true at
\* the first poll that finds the challenge marker gone; otherwise it pauses
\* 2000 ms between polls and returns false once 180000 ms have elapsed, which
\* with polls that take no time is after at most 90 polls.
C25_WindowTerminates ==
    /\ [](pc = "sc_poll" =>
            /\ elapsed \in 0..ManualMaxWaitMs
            /\ elapsed % ManualPollMs = 0
            /\ elapsed \div ManualPollMs <= 90)
    /\ [][pc = "sc_poll" =>
            \/ pc' = "sc_poll" /\ elapsed' = elapsed + ManualPollMs
                               /\ elapsed < ManualMaxWaitMs
            \/ pc' = "login_solved" /\ cap'.chain = "true"
                                    /\ elapsed < ManualMaxWaitMs
            \/ pc' = "login_solved" /\ cap'.chain = "false"
                                    /\ elapsed = ManualMaxWaitMs]_vars
    /\ ((pc = "sc_poll") ~> (pc # "sc_poll"))

C25_Witness ==
    /\ pc = "sc_poll"
    /\ cap.polls = 1
    /\ elapsed = ManualMaxWaitMs
    /\ elapsed \div ManualPollMs = 90

\* C27: the wait after the click on the chat affordance is released without
\* error by whichever comes first of the rich composer, the plain composer,
\* the navigation and the 10000 ms ceiling; when none of the first three
\* happens the ceiling releases it, and the 15000 ms timeouts of the three
\* waits never settle the race.  The race is rejected only by a wait that
\* the driver rejects before any of the four.
C27_CeilingReleasesTheWait ==
    pc = "fn_raced" =>
        LET waits == {input.rich, input.plain, input.nav}
            first == CHOOSE t \in {x.at : x \in waits} \cup {RaceCeilingMs} :
                         /\ t <= RaceCeilingMs
                         /\ \A x \in waits : t <= x.at
        IN /\ result.how # "timeout"
           /\ result.at = first
           /\ result.at <= RaceCeilingMs
           /\ (\A x \in waits : x.at > RaceCeilingMs) =>
                  /\ result.name = "ceiling"
                  /\ result.how = "resolved"
           /\ (\A x \in waits : x.at = first => x.how = "resolved") =>
                  result.how = "resolved"
           /\ result.how = "raised" =>
                  \E x \in waits : x.at = first /\ x.how = "raised"
                                       /\ first < RaceCeilingMs

C27_Witness ==
    /\ pc = "fn_raced"
    /\ \A x \in {input.rich, input.plain, input.nav} : x.how = "timeout"
    /\ result.name = "ceiling"
    /\ result.how = "resolved"

\* C28: isLoginRequired is true exactly when the URL matches a login path, or
\* the page has an identity field and a secret field and either a login
\* submit control or login wording.  A page with both fields and neither of
\* the two, on a URL that is not a login path, does not require login.
C28_LoginRequiredExactly ==
    pc = "fn_detected" =>
        LET pg == input.page
            fields == pg.hasLoginForm /\ pg.hasPasswordField
            cue == pg.hasLoginButton \/ pg.hasLoginText
        IN /\ result.needsLogin <=> (pg.urlLogin \/ (fields /\ cue))
           /\ (fields /\ ~cue /\ ~pg.urlLogin) => ~result.needsLogin

C28_Witness ==
    /\ pc = "fn_detected"
    /\ input.page.hasLoginForm /\ input.page.hasPasswordField
    /\ ~input.page.hasLoginButton /\ ~input.page.hasLoginText
    /\ ~input.page.urlLogin
    /\ ~result.needsLogin

\* C29: a run over n profiles makes exactly n - 1 pacing delays, each of 3000
\* to 10000 ms: none before the first profile, and for every later profile
\* one delay after the outcome of the profile before it has been emitted and
\* before any browser operation for the profile itself.
C29_PacingBetweenProfiles ==
    /\ pc = "pace" =>
          /\ i > 1
          /\ paces = i - 2
          /\ Len(sink) = i - 1
          /\ sink[i - 1].profileId = profiles[i - 1].id
          /\ ops = FreshOps
    /\ pc = "smtp_load" =>
          /\ paces = i - 1
          /\ [ops EXCEPT !.pause = 0] = FreshOps
          /\ IF i = 1 THEN ops.pause = 0
                      ELSE ops.pause \in PaceMinMs..PaceMaxMs
    /\ pc \in ProfilePcs => paces = i - 1
    /\ pc \in {"close", "summary", "done"} =>
          /\ Len(sink) = Len(profiles)
          /\ paces = Len(profiles) - 1

C29_Witness ==
    /\ pc = "done"
    /\ Len(profiles) = MaxProfiles
    /\ paces = MaxProfiles - 1
    /\ Len(sink) = MaxProfiles

\* C30: an outcome has messageSent = "Yes" only if a send input was issued
\* to the page while the profile was processed: a click on the located send
\* control or an Enter key event.  A located send control without a bounding
\* box does not give messageSent = "Yes" with neither.
C30_SentOnlyIfIssued ==
    (pc = "push" /\ result.messageSent = "Yes") =>
        /\ ops.sendClicks + ops.enterKeys >= 1
        /\ obs.sendClick = "nobox" => ops.enterKeys >= 1

\* C31: whenever the check after the submit flags a challenge, at least one
\* resolution strategy (the checkbox/audio attempt or the manual-solve window)
\* is attempted before the chain reports the challenge resolved; a challenge
\* flagged only by verification wording is not reported resolved with no
\* strategy having run.
C31_StrategyBeforeResolved ==
    /\ (cap.challenge # "none" /\ cap.chain = "true") =>
            cap.audioCalls + cap.polls >= 1
    /\ (cap.challenge = "textOnly" /\ cap.chain = "true") =>
            cap.audioCalls >= 1

\* C32: while one profile is processed the chat-entry affordance is clicked
\* at most once, and it has been clicked exactly once whenever
\* messageButtonPresent = "Yes" is recorded.
C32_ChatClickedOnce ==
    /\ ops.chatClicks <= 1
    /\ (pc \in ProfilePcs \cup {"push"} /\ messageButtonPresent = "Yes") =>
            ops.chatClicks = 1

\* C33: whenever credentials are submitted, the identity and the secret that
\* were typed into the login form are those of the input that passed
\* validation; the secret typed is not one taken from the environment the
\* process started in, from a literal of the code, or the empty string.
C33_TypedCredentialsAreTheInputs ==
    ops.submits >= 1 =>
        /\ ops.identityTyped = 1
        /\ ops.secretTyped = 1
        /\ obs.identity = "input"
        /\ obs.secret = "input"
        /\ obs.secret \notin {"ambient", "literal", "empty"}

C33_Witness ==
    /\ ops.submits = 1
    /\ obs.identity = "input"
    /\ obs.secret = "input"
    /\ pc = "login_race"

\* C34: after a successful login the return navigation to the profile URL is
\* one page load outside the retry loop: when it fails it is not tried again
\* and the profile's outcome is a failure, so one profile's processing loads
\* the profile URL at most 4 times, 3 initial attempts and 1 return.
C34_ReturnLoadOnce ==
    /\ [](/\ ops.returnLoads <= 1
          /\ ops.loads + ops.returnLoads <= maxAttempts + 1
          /\ ops.returnLoads = 1 => (obs.nav = "ok" /\ ops.saves = 1))
    /\ [][pc = "smtp_return" =>
            /\ ops'.returnLoads = ops.returnLoads + 1
            /\ ops'.loads = ops.loads
            /\ \/ pc' = "smtp_scroll"
               \/ /\ pc' = "push"
                  /\ ~result'.success
                  /\ result'.error = DriverTimeoutMsg]_vars

C34_Witness ==
    /\ pc = "push"
    /\ ops.loads = maxAttempts
    /\ ops.returnLoads = 1
    /\ ops.saves = 1
    /\ ~result.success
    /\ result.error = DriverTimeoutMsg

\* C35: solveCaptcha returns true from the manual-solve window only when
\* every marker its own detection looks for, a recaptcha iframe or an element
\* marked with a captcha class or id, is absent from the page; a challenge
\* shown through a captcha-marked element is not reported solved while that
\* element is still on the page.
C35_SolvedMeansNoMarkerLeft ==
    (pc = "login_solved" /\ cap.polls >= 1 /\ cap.chain = "true") =>
        cap.left = "none"

\* C36: in every outcome record emitted in any run, messageSent = "Yes"
\* implies messageButtonPresent = "Yes"; and messageButtonPresent = "Yes" is
\* recorded only after the click on the chat-entry affordance has returned
\* without raising.
C36_SentImpliesButtonPresent ==
    /\ \A k \in 1..Len(sink) :
          sink[k].messageSent = "Yes" => sink[k].messageButtonPresent = "Yes"
    /\ messageSent = "Yes" => messageButtonPresent = "Yes"
    /\ messageButtonPresent = "Yes" =>
          /\ obs.chat = "found"
          /\ obs.chatClick \in {"clicked", "nobox"}
    /\ (pc = "push" /\ result.messageButtonPresent = "Yes") =>
          /\ obs.chat = "found"
          /\ ~humanClick(obs.chatClick).raised
          /\ obs.chatClick # "none"

C36_Witness ==
    /\ Len(sink) >= 1
    /\ sink[1].messageSent = "Yes"
    /\ sink[1].messageButtonPresent = "Yes"
    /\ pc = "push"
    /\ ~result.success
    /\ result.messageButtonPresent = "Yes"
    /\ result.messageSent = "No"

\* C37: once the browser has been launched and its page configured, the
\* browser is closed exactly once on every path out of the batch: after the
\* last profile on a normal run, and also when an error escapes the profile
\* loop (the sink rejecting both the outcome and its failure record), in
\* which case the error is raised again after the close.
C37_BrowserClosedOnce ==
    /\ closes <= 1
    /\ pc \in ProfilePcs \cup {"home", "loop", "pace", "push", "loop_catch",
                                "close", "fatal_close"} =>
          (browser = "open" /\ closes = 0)
    /\ pc = "fatal_close" => thrown = SinkErrorMsg
    /\ pc \in {"summary", "done"} =>
          /\ browser = "closed"
          /\ closes = 1
          /\ Len(sink) = Len(profiles)
    /\ pc = "fatal" =>
          /\ browser = "closed"
          /\ closes = 1
          /\ thrown = SinkErrorMsg
    /\ (browser = "open" /\ pc # "crashed") => ENABLED Next

C37_Witness ==
    /\ pc = "fatal"
    /\ browser = "closed"
    /\ closes = 1
    /\ thrown = SinkErrorMsg
    /\ Len(sink) < Len(profiles)

====
